---- MODULE Spec2Model ----
(***************************************************************************)
(* Run control of the flame1d driver (flame_run.py): command-line parsing, *)
(* configuration, restart loading, the step loop with its checkpoint       *)
(* callback, the non-finite-value path of my_rhs and the final checkpoint. *)
(*                                                                         *)
(* Strings are sequences of one-character strings.  Times are integers in  *)
(* units of 5.0e-8 s (the default current_dt).  The routines the driver    *)
(* imports from mirgecom (check_step, sim_checkpoint, advance_state,       *)
(* inviscid_sim_timestep, euler_step) are not part of the source tree;     *)
(* they are modelled by what the driver relies on.                         *)
(***************************************************************************)
EXTENDS Integers, Sequences, FiniteSets, TLC

\* ------------------------------------------------------------------ bounds
MaxStep == 2      \* restart steps named on the command line: 0..MaxStep
MaxT == 3         \* persisted times in a snapshot: 0..MaxT
MaxRanks == 2     \* MPI world sizes 1..MaxRanks (and ranks of the MPI model)

\* --------------------------------------------------------- program constants
DefaultNviz == 5
DefaultNrestart == 5
DefaultDt == 1
DefaultTFinal == 5
EmergencyStep == 999999999
Rank == 0
StepWidth == 6
RankWidth == 4

\* Python's None, for a string and for a step number
None == <<"None">>

NoStep == -1

\* a path that names no file, and the absence of loaded restart data
NoFile == [nofile |-> TRUE]

NoData == [nodata |-> TRUE]

NoState == [gen |-> 0, finite |-> TRUE, unset |-> TRUE]

\* ------------------------------------------------------------------ strings
Digits == <<"0", "1", "2", "3", "4", "5", "6", "7", "8", "9">>

DigitSet == {Digits[i] : i \in 1..10}

DigitVal(c) == (CHOOSE i \in 1..10 : Digits[i] = c) - 1

RECURSIVE IntStr(_)
\* str(n) for n >= 0
IntStr(n) == IF n < 10 THEN <<Digits[n + 1]>>
             ELSE IntStr(n \div 10) \o <<Digits[(n % 10) + 1]>>

RECURSIVE ZeroPad(_, _)
ZeroPad(s, w) == IF Len(s) >= w THEN s ELSE ZeroPad(<<"0">> \o s, w)

\* "{n:0wd}" for n >= 0: at least w digits, zero filled
FormatInt(n, w) == ZeroPad(IntStr(n), w)

IsNumeric(s) == Len(s) > 0 /\ \A i \in 1..Len(s) : s[i] \in DigitSet

RECURSIVE ParseInt(_)
\* int(s) for a string of decimal digits
ParseInt(s) == IF Len(s) = 0 THEN 0
               ELSE 10 * ParseInt(SubSeq(s, 1, Len(s) - 1)) + DigitVal(s[Len(s)])

RECURSIVE Split(_, _)
\* s.split(sep): the fields between the occurrences of the character sep
Split(s, sep) ==
    IF \A i \in 1..Len(s) : s[i] # sep THEN <<s>>
    ELSE LET k == CHOOSE i \in 1..Len(s) :
                    s[i] = sep /\ \A j \in 1..(i - 1) : s[j] # sep
         IN <<SubSeq(s, 1, k - 1)>> \o Split(SubSeq(s, k + 1, Len(s)), sep)

\* s.replace(c, ""): s without the character c
Remove(s, c) == SelectSeq(s, LAMBDA x : x # c)

\* ascii(s) (argparse type=ascii) for s without quotes or escapes: repr(s)
Ascii(s) == <<"'">> \o s \o <<"'">>

\* os.path.split(p)[1]: what follows the last "/"
PathTail(p) ==
    IF \A i \in 1..Len(p) : p[i] # "/" THEN p
    ELSE LET k == CHOOSE i \in 1..Len(p) :
                    p[i] = "/" /\ \A j \in (i + 1)..Len(p) : p[j] # "/"
         IN SubSeq(p, k + 1, Len(p))

\* snapshot_pattern.format(casename=, step=, rank=) for
\* "{casename}-{step:06d}-{rank:04d}.pkl"
SnapshotName(name, step, rank) ==
    name \o <<"-">> \o FormatInt(step, StepWidth) \o <<"-">>
         \o FormatInt(rank, RankWidth) \o <<".", "p", "k", "l">>

\* ------------------------------------------------------------------- inputs
\* case names given with -c or used by the run that wrote the restart file
CaseNames == {<<"f">>, <<"f", "-", "g">>, <<"f", "-", "2">>}

\* the name used when no -c is given: "flame1d"
DefaultCasename == <<"f", "l", "a", "m", "e", "1", "d">>

\* directories a restart file may be named under
Dirs == {<< >>, <<"d", "/">>}

\* the file name the driver itself opens for its parameters, 'run2_params.yaml'
Run2Params == <<"r", "u", "n", "2">>

UserParams == <<"u", "s", "e", "r">>

ConfigKeys == {"nviz", "nrestart", "current_dt", "t_final"}

\* contents of YAML documents on disk: key -> value, a key may be absent
YamlDocs ==
    { [nviz |-> 1, nrestart |-> 2, current_dt |-> 1, t_final |-> 3],
      [nviz |-> 2, nrestart |-> 1, current_dt |-> 2, t_final |-> 3],
      [nviz |-> 1, nrestart |-> 1, current_dt |-> -1, t_final |-> 2],
      [nrestart |-> 2, current_dt |-> 1, t_final |-> 3] }

ElementCounts == {4, 8}

\* the solution field: how many integrator steps produced it from the loaded
\* field, and whether all its values are finite
LoadedState == [gen |-> 0, finite |-> TRUE]

\* what a snapshot file holds (local_mesh left out: it is only passed on)
SnapshotData(wstep) ==
    [t : 0..MaxT, step : {wstep, wstep + 1}, global_nelements : ElementCounts,
     num_parts : 1..MaxRanks, state : {LoadedState}]

VARIABLES
    argv,            \* parsed command line: casename, restart_file, input_file
    yamls,           \* YAML files on disk: path -> document or NoFile
    disk,            \* snapshot files on disk: set of [file, data]
    nparts,          \* comm.Get_size()
    pc,              \* position in the program, or how it ended
    casename, restart_step, restart_name, input_file,
    nviz, nrestart, current_dt, t_final,
    current_t, current_step, current_state, global_nelements,
    bound_t,         \* the t bound into get_timestep by partial()
    dt,              \* advance_state's dt of the current iteration
    vizfiles,        \* step markers of the visualization dumps written
    written,         \* snapshot files written by this run: set of [file, data]
    ckptlog,         \* calls of my_checkpoint: set of [step, wrote, final]
    nsteps,          \* integrator steps taken
    loaded,          \* the snapshot data read at restart, or NoData
    rk_pc,           \* multi-rank run: each rank's position
    rk_finite,       \* multi-rank run: is the rank's part of the state finite
    rk_t             \* multi-rank run: each rank's current time

vars == <<argv, yamls, disk, nparts, pc, casename, restart_step, restart_name,
          input_file, nviz, nrestart, current_dt, t_final, current_t,
          current_step, current_state, global_nelements, bound_t, dt,
          vizfiles, written, ckptlog, nsteps, loaded, rk_pc, rk_finite, rk_t>>

env == <<argv, yamls, nparts>>

mpi == <<rk_pc, rk_finite, rk_t>>

\* the restart files a user can name: one written earlier under name wn at
\* step ws, possibly moved into a directory
RestartArgs ==
    {[dir |-> d, wname |-> wn, wstep |-> ws] :
        d \in Dirs, wn \in CaseNames, ws \in 0..MaxStep}

RestartPath(r) == r.dir \o SnapshotName(r.wname, r.wstep, Rank)

YamlDisks ==
    {[p \in {UserParams, Run2Params} |-> IF p = UserParams THEN u ELSE r] :
        u \in {NoFile} \cup YamlDocs, r \in {NoFile} \cup YamlDocs}

\* run_flame's variables before the program has assigned them
Unstarted ==
    /\ casename = None /\ restart_step = NoStep /\ restart_name = None
    /\ input_file = None
    /\ nviz = 0 /\ nrestart = 0 /\ current_dt = 0 /\ t_final = 0
    /\ current_t = 0 /\ current_step = 0 /\ current_state = NoState
    /\ global_nelements = 0 /\ bound_t = 0 /\ dt = 0
    /\ vizfiles = {} /\ written = {} /\ ckptlog = {} /\ nsteps = 0
    /\ loaded = NoData

Init ==
    /\ \E c \in {None, <<"f", "-", "g">>}, i \in {None, << >>, UserParams, Run2Params} :
          \/ /\ argv = [casename |-> c, restart_file |-> None, input_file |-> i]
             /\ disk = {}
          \/ \E r \in RestartArgs :
                /\ argv = [casename |-> c, restart_file |-> RestartPath(r),
                           input_file |-> i]
                /\ \/ disk = {}
                   \/ \E sd \in SnapshotData(r.wstep) :
                         disk = {[file |-> SnapshotName(r.wname, r.wstep, Rank),
                                  data |-> sd]}
    /\ yamls \in YamlDisks
    /\ argv.input_file \in {None, << >>} =>
          yamls = [p \in {UserParams, Run2Params} |-> NoFile]
    /\ argv.input_file = Run2Params => yamls[UserParams] = NoFile
    /\ nparts \in 1..MaxRanks
    /\ pc = "main"
    /\ Unstarted
    /\ rk_pc = << >> /\ rk_finite = << >> /\ rk_t = << >>

\* --------------------------------------------------------------- __main__
\* lines 427-433: step and name from the restart file's name
ParseRestartFile(arg) ==
    LET file_name == PathTail(arg)
        fields == Split(file_name, "-")
    IN IF Len(fields) < 2 THEN [err |-> "IndexError", step |-> NoStep, name |-> None]
       ELSE IF ~IsNumeric(fields[2])
            THEN [err |-> "ValueError", step |-> NoStep, name |-> None]
       ELSE [err |-> "", step |-> ParseInt(fields[2]),
             name |-> Remove(fields[1], "'")]

\* lines 414-446: parse the command line and call run_flame
Main ==
    /\ pc = "main"
    /\ LET cn == IF argv.casename # None
                 THEN Remove(Ascii(argv.casename), "'") ELSE DefaultCasename
           pr == IF argv.restart_file # None
                 THEN ParseRestartFile(Ascii(argv.restart_file))
                 ELSE [err |-> "", step |-> NoStep, name |-> None]
       IN /\ casename' = cn
          /\ IF pr.err # ""
             THEN /\ pc' = pr.err
                  /\ UNCHANGED <<restart_step, restart_name, input_file>>
             ELSE /\ restart_step' = pr.step
                  /\ restart_name' = pr.name
                  /\ IF argv.input_file # None
                     THEN /\ input_file' = Remove(Ascii(argv.input_file), "'")
                          /\ pc' = "run_flame"
                     ELSE \* input_file is bound only in the branch above
                          /\ input_file' = None
                          /\ pc' = "NameError_input_file"
    /\ UNCHANGED <<env, mpi, disk, nviz, nrestart, current_dt, t_final, current_t,
                   current_step, current_state, global_nelements, bound_t, dt,
                   vizfiles, written, ckptlog, nsteps, loaded>>

\* ---------------------------------------------------------------- run_flame
\* lines 104-110: the driver only restarts
Start ==
    /\ pc = "run_flame"
    /\ IF restart_step = NoStep
       THEN pc' = "exit" /\ UNCHANGED restart_name
       ELSE /\ pc' = "config"
            /\ restart_name' = IF restart_name = None THEN casename
                               ELSE restart_name
    /\ UNCHANGED <<env, mpi, disk, casename, restart_step, input_file, nviz,
                   nrestart, current_dt, t_final, current_t, current_step,
                   current_state, global_nelements, bound_t, dt, vizfiles,
                   written, ckptlog, nsteps, loaded>>

\* the file whose values lines 135-141 read
ConfigSource(user_input_file) == Run2Params

\* lines 121-141: the run parameters
LoadConfig ==
    /\ pc = "config"
    /\ IF input_file = << >>
       THEN /\ nviz' = DefaultNviz
            /\ nrestart' = DefaultNrestart
            /\ current_dt' = DefaultDt
            /\ t_final' = DefaultTFinal
            /\ pc' = "restart"
       ELSE IF input_file \notin DOMAIN yamls \/ yamls[input_file] = NoFile
            THEN \* open(user_input_file), line 133
                 /\ pc' = "FileNotFoundError"
                 /\ UNCHANGED <<nviz, nrestart, current_dt, t_final>>
       ELSE LET doc == yamls[ConfigSource(input_file)]
            IN IF doc = NoFile
               THEN /\ pc' = "FileNotFoundError"
                    /\ UNCHANGED <<nviz, nrestart, current_dt, t_final>>
               ELSE IF ConfigKeys \subseteq DOMAIN doc
                    THEN /\ nviz' = doc.nviz
                         /\ nrestart' = doc.nrestart
                         /\ current_dt' = doc.current_dt
                         /\ t_final' = doc.t_final
                         /\ pc' = "restart"
                    ELSE /\ pc' = "KeyError"
                         /\ UNCHANGED <<nviz, nrestart, current_dt, t_final>>
    /\ UNCHANGED <<env, mpi, disk, casename, restart_step, restart_name, input_file,
                   current_t, current_step, current_state, global_nelements,
                   bound_t, dt, vizfiles, written, ckptlog, nsteps, loaded>>

\* the snapshot file of that name on disk, or NoFile
ReadSnapshot(file) ==
    IF \E s \in disk : s.file = file
    THEN (CHOOSE s \in disk : s.file = file).data
    ELSE NoFile

\* the assertion lost (as under python -O)
PartsMatchSkipped(size, restart_data) == TRUE

\* line 277: assert comm.Get_size() == restart_data["num_parts"]
PartsMatch(size, restart_data) == size = restart_data.num_parts

\* the step taken from the file instead of the argument
InitialStepFromFile(rstep, restart_data) == restart_data.step

\* line 287: the step the run starts from
InitialStep(rstep, restart_data) == rstep

\* lines 270-291 and 316-318: load the snapshot, check the decomposition
ProcessRestart ==
    /\ pc = "restart"
    /\ LET restart_data == ReadSnapshot(SnapshotName(restart_name, restart_step, Rank))
       IN IF restart_data = NoFile
          THEN /\ pc' = "FileNotFoundError"
               /\ UNCHANGED <<current_t, current_step, current_state,
                              global_nelements, bound_t, loaded>>
          ELSE IF ~PartsMatch(nparts, restart_data)
          THEN /\ pc' = "AssertionError"
               /\ global_nelements' = restart_data.global_nelements
               /\ UNCHANGED <<current_t, current_step, current_state, bound_t,
                              loaded>>
          ELSE /\ global_nelements' = restart_data.global_nelements
               /\ current_t' = restart_data.t
               /\ current_step' = InitialStep(restart_step, restart_data)
               /\ current_state' = restart_data.state
               /\ bound_t' = restart_data.t
               /\ loaded' = restart_data
               /\ pc' = "advance"
    /\ UNCHANGED <<env, mpi, disk, casename, restart_step, restart_name, input_file,
                   nviz, nrestart, current_dt, t_final, dt, vizfiles, written,
                   ckptlog, nsteps>>

\* ------------------------------------------------- mirgecom library routines
\* simutil.check_step: is step on the interval (0: always, negative: never)
CheckStep(step, interval) ==
    IF interval = 0 THEN TRUE
    ELSE IF interval < 0 THEN FALSE
    ELSE step % interval = 0

\* simutil.inviscid_sim_timestep with constant_cfl=False: dt, cut to t_final
InviscidSimTimestep(t, dtv, tf) == IF t + dtv > tf THEN tf - t ELSE dtv

\* simutil.sim_checkpoint: the visualization dump, on the nviz interval
SimCheckpoint(step, interval) ==
    IF CheckStep(step, interval) THEN vizfiles \cup {step} ELSE vizfiles

\* ------------------------------------------------------ run_flame's closures
\* lines 316-318: get_timestep = partial(inviscid_sim_timestep, t=current_t, ...)
\* binds the time of the restart; advance_state passes only the state
GetTimestep == InviscidSimTimestep(bound_t, current_dt, t_final)

\* the restart step not skipped
WriteRestartNoSkip(step, rstep, interval) == CheckStep(step, interval)

\* lines 342-343: write_restart
WriteRestart(step, rstep, interval) ==
    IF step # rstep THEN CheckStep(step, interval) ELSE FALSE

\* the rank's own element count written as the global one
SnapshotRecordLocalCount(step, t, state) ==
    [t |-> t, step |-> step, global_nelements |-> global_nelements \div nparts,
     num_parts |-> nparts, state |-> state]

\* lines 346-353: the pickled mapping
SnapshotRecord(step, t, state) ==
    [t |-> t, step |-> step, global_nelements |-> global_nelements,
     num_parts |-> nparts, state |-> state]

\* lines 340-364: my_checkpoint(step, t, dt, state)
MyCheckpoint(step, t, state, final) ==
    LET write_restart == WriteRestart(step, restart_step, nrestart)
        f == [file |-> SnapshotName(casename, step, Rank),
              data |-> SnapshotRecord(step, t, state)]
    IN /\ IF write_restart
          THEN /\ disk' = {s \in disk : s.file # f.file} \cup {f}
               /\ written' = {s \in written : s.file # f.file} \cup {f}
          ELSE UNCHANGED <<disk, written>>
       /\ ckptlog' = ckptlog \cup
                        {[step |-> step, wrote |-> write_restart, final |-> final]}
       /\ vizfiles' = SimCheckpoint(step, nviz)

\* the names my_rhs can resolve at line 333: run_flame's locals and the
\* module's globals; s0_sc and kappa_sc are assigned nowhere in the file
BoundNames ==
    {"discr", "visualizer", "eos", "casename", "current_dt", "exittol",
     "constant_cfl", "comm", "vis_timer", "rank", "kappa", "dim", "boundaries"}

\* ------------------------------------------------------------ the step loop
\* steppers.advance_state, up to the checkpoint call of one iteration
AdvanceIter ==
    /\ pc = "advance"
    /\ IF ~(current_t < t_final)
       THEN /\ pc' = "final"
            /\ UNCHANGED <<dt, disk, written, ckptlog, vizfiles>>
       ELSE /\ dt' = GetTimestep
            /\ IF dt' < 0
               THEN /\ pc' = "final"
                    /\ UNCHANGED <<disk, written, ckptlog, vizfiles>>
               ELSE /\ MyCheckpoint(current_step, current_t, current_state, FALSE)
                    /\ pc' = "timestepper"
    /\ UNCHANGED <<env, mpi, casename, restart_step, restart_name, input_file, nviz,
                   nrestart, current_dt, t_final, current_t, current_step,
                   current_state, global_nelements, bound_t, nsteps, loaded>>

\* euler_step calling my_rhs (lines 321-338), then t += dt, istep += 1
EulerStep ==
    /\ pc = "timestepper"
    /\ IF ~current_state.finite
       THEN \* lines 324-334: dump right now, then exit()
            /\ IF {"s0_sc", "kappa_sc"} \subseteq BoundNames
               THEN /\ vizfiles' = SimCheckpoint(EmergencyStep, 1)
                    /\ pc' = "exit_nonfinite"
               ELSE /\ pc' = "NameError_s0_sc"
                    /\ UNCHANGED vizfiles
            /\ UNCHANGED <<current_state, current_t, current_step, nsteps>>
       ELSE /\ \E fin \in BOOLEAN :
                 current_state' = [gen |-> current_state.gen + 1, finite |-> fin]
            /\ current_t' = current_t + dt
            /\ current_step' = current_step + 1
            /\ nsteps' = nsteps + 1
            /\ pc' = "advance"
            /\ UNCHANGED vizfiles
    /\ UNCHANGED <<env, mpi, disk, casename, restart_step, restart_name, input_file,
                   nviz, nrestart, current_dt, t_final, global_nelements,
                   bound_t, dt, written, ckptlog, loaded>>

\* lines 376-381: the final call of my_checkpoint
FinalCheckpoint ==
    /\ pc = "final"
    /\ MyCheckpoint(current_step, current_t, current_state, TRUE)
    /\ pc' = "check"
    /\ UNCHANGED <<env, mpi, casename, restart_step, restart_name, input_file, nviz,
                   nrestart, current_dt, t_final, current_t, current_step,
                   current_state, global_nelements, bound_t, dt, nsteps,
                   loaded>>

\* lines 383-389: the final time against t_final, then exit()
Finish ==
    /\ pc = "check"
    /\ pc' = IF current_t - t_final < 0 THEN "ValueError_abnormal" ELSE "done"
    /\ UNCHANGED <<env, mpi, disk, casename, restart_step, restart_name, input_file,
                   nviz, nrestart, current_dt, t_final, current_t, current_step,
                   current_state, global_nelements, bound_t, dt, vizfiles,
                   written, ckptlog, nsteps, loaded>>

Next ==
    \/ Main
    \/ Start
    \/ LoadConfig
    \/ ProcessRestart
    \/ AdvanceIter
    \/ EulerStep
    \/ FinalCheckpoint
    \/ Finish

Spec == Init /\ [][Next]_vars

\* ------------------------------------------------- the run on several ranks
\* Every rank runs the same loop on its own part of the mesh.  my_rhs checks
\* the rank's own part (discr.norm, line 323); the operator evaluation that
\* follows (ns_operator, line 337) exchanges face data with the other ranks
\* and completes only when every rank takes part in it.
Ranks == 0..(nparts - 1)

RankTerminated(r) == rk_pc[r] \in {"done", "NameError_s0_sc", "exit_nonfinite"}

MPIInit ==
    /\ argv = [casename |-> None, restart_file |-> None, input_file |-> None]
    /\ yamls = [p \in {UserParams, Run2Params} |-> NoFile]
    /\ disk = {}
    /\ nparts \in 2..(MaxRanks + 1)
    /\ pc = "ranks"
    /\ casename = None /\ restart_step = NoStep /\ restart_name = None
    /\ input_file = None
    /\ nviz = DefaultNviz /\ nrestart = DefaultNrestart
    /\ current_dt = DefaultDt /\ t_final \in 1..(MaxStep + 1)
    /\ current_t = 0 /\ current_step = 0 /\ current_state = NoState
    /\ global_nelements = 0 /\ bound_t = 0 /\ dt = 0
    /\ vizfiles = {} /\ written = {} /\ ckptlog = {} /\ nsteps = 0
    /\ loaded = NoData
    /\ rk_pc = [r \in Ranks |-> "rhs"]
    /\ rk_finite = [r \in Ranks |-> TRUE]
    /\ rk_t = [r \in Ranks |-> 0]

driver == <<argv, yamls, disk, nparts, pc, casename, restart_step,
            restart_name, input_file, nviz, nrestart, current_dt, t_final,
            current_t, current_step, current_state, global_nelements, bound_t,
            dt, vizfiles, written, ckptlog, nsteps, loaded>>

\* lines 321-338 on rank r: the check of the rank's own values, then either
\* the emergency path or the entry into the operator's exchange
RankRhs(r) ==
    /\ rk_pc[r] = "rhs"
    /\ rk_pc' = [rk_pc EXCEPT ![r] =
                    IF ~rk_finite[r]
                    THEN IF {"s0_sc", "kappa_sc"} \subseteq BoundNames
                         THEN "exit_nonfinite" ELSE "NameError_s0_sc"
                    ELSE "exchange"]
    /\ UNCHANGED <<driver, rk_finite, rk_t>>

\* the exchange completes once every rank has entered it; the integrator
\* then produces each rank's next values, finite or not
Exchange ==
    /\ \A r \in Ranks : rk_pc[r] = "exchange"
    /\ \E fin \in [Ranks -> BOOLEAN] : rk_finite' = fin
    /\ rk_t' = [r \in Ranks |-> rk_t[r] + current_dt]
    /\ rk_pc' = [r \in Ranks |->
                    IF rk_t[r] + current_dt < t_final THEN "rhs" ELSE "final"]
    /\ UNCHANGED driver

\* lines 376-389 on rank r: the final checkpoint and exit()
RankFinish(r) ==
    /\ rk_pc[r] = "final"
    /\ rk_pc' = [rk_pc EXCEPT ![r] = "done"]
    /\ UNCHANGED <<driver, rk_finite, rk_t>>

MPINext ==
    \/ \E r \in Ranks : RankRhs(r)
    \/ Exchange
    \/ \E r \in Ranks : RankFinish(r)

MPISpec == MPIInit /\ [][MPINext]_vars

\* ------------------------------------------------------------------ claims
Ended == {"done", "ValueError_abnormal", "exit_nonfinite", "NameError_s0_sc"}

\* the run has passed the restart loader (the assertion included)
PastRestart == pc \in {"advance", "timestepper", "final", "check", "AssertionError"} \cup Ended

\* the run has passed the configuration loader
PastConfig == pc = "restart" \/ PastRestart

\* a snapshot written by this run holds what my_checkpoint was given at step
WroteAt(step) == \E w \in written : w.data.step = step

\* C1: for every call of my_checkpoint, the final one included, a restart
\* snapshot is written iff step % nrestart = 0 and step # restart_step
C1_RestartWrittenIff ==
    \A c \in ckptlog :
        /\ c.wrote <=> (c.step % nrestart = 0 /\ c.step # restart_step)
        /\ c.wrote <=> WroteAt(c.step)

\* C1 witness: the final call wrote a snapshot, and the call at the restart
\* step, which is on the interval, wrote none
C1_Witness ==
    \E c, d \in ckptlog :
        /\ c.final /\ c.wrote
        /\ ~d.final /\ ~d.wrote /\ d.step = restart_step
        /\ d.step % nrestart = 0

\* C2 (as claimed): when my_rhs has met a non-finite state and the process has
\* ended, the emergency dump with step marker 999999999 has been written
C2_EmergencyDumpWritten ==
    pc \in {"exit_nonfinite", "NameError_s0_sc"} => EmergencyStep \in vizfiles

C4_StartsAtPersistedStep ==
    (pc = "advance" /\ nsteps = 0) =>
        current_t = loaded.t /\ current_step = loaded.step

\* C4 (amended): the step loop starts at the snapshot's persisted t and at the
\* step number passed in to locate the file
C4_StartsAtGivenStep ==
    (pc = "advance" /\ nsteps = 0) =>
        current_t = loaded.t /\ current_step = restart_step

\* C4 witness: the loop is about to start from a snapshot whose persisted step
\* is not the step in its file name
C4_Witness ==
    pc = "advance" /\ nsteps = 0 /\ loaded.step # restart_step

\* the snapshot the restart loader opens
RestartFileData == ReadSnapshot(SnapshotName(restart_name, restart_step, Rank))

\* C5: a snapshot whose num_parts differs from the world size ends the run at
\* the assertion: no integrator step, no restart or visualization file
C5_MismatchRejected ==
    (PastRestart /\ RestartFileData # NoFile
        /\ RestartFileData.num_parts # nparts) =>
            /\ pc = "AssertionError"
            /\ nsteps = 0 /\ vizfiles = {} /\ ckptlog = {}

\* C5 witness: the run has ended at the assertion
C5_Witness ==
    pc = "AssertionError" /\ RestartFileData.num_parts # nparts

\* the final checkpoint has been made
AfterFinal == pc \in {"check", "done", "ValueError_abnormal"}

\* C6 (as claimed): load, zero steps, checkpoint: a snapshot is written with
\* the source file's global_nelements, num_parts and t
C6_ZeroStepRoundTrip ==
    (AfterFinal /\ nsteps = 0) =>
        \E w \in written :
            /\ w.data.global_nelements = loaded.global_nelements
            /\ w.data.num_parts = loaded.num_parts
            /\ w.data.t = loaded.t

\* C6 (amended): load, zero steps, checkpoint writes no snapshot and leaves
\* the source file as it was; every snapshot a run writes has the source
\* file's global_nelements and num_parts
C6_ZeroStepWritesNothing ==
    /\ (AfterFinal /\ nsteps = 0) =>
          /\ written = {}
          /\ RestartFileData = loaded
    /\ \A w \in written :
          /\ w.data.global_nelements = loaded.global_nelements
          /\ w.data.num_parts = loaded.num_parts

\* C6 witness: a run of zero steps has made its final checkpoint call
C6_Witness ==
    /\ pc = "done" /\ nsteps = 0
    /\ \E c \in ckptlog : c.final

\* C7 (as claimed): with a config file supplied the run goes on only if that
\* file has the four keys, and the four parameters are that file's values;
\* with none supplied the run goes on with the defaults
C7_ParamsFromSuppliedFile ==
    /\ (PastConfig /\ input_file # << >>) =>
          /\ ConfigKeys \subseteq DOMAIN yamls[input_file]
          /\ nviz = yamls[input_file].nviz
          /\ nrestart = yamls[input_file].nrestart
          /\ current_dt = yamls[input_file].current_dt
          /\ t_final = yamls[input_file].t_final
    /\ argv.input_file = None => pc # "NameError_input_file"

\* C8 (as claimed): from a restart time below t_final no step passes t_final,
\* and a run that ends normally ends at t_final
C8_NoOvershoot ==
    (PastRestart /\ loaded # NoData /\ loaded.t < t_final) =>
        /\ current_t <= t_final
        /\ pc = "done" => current_t = t_final

\* C9 (as claimed): in a run on two or more ranks no rank stays blocked:
\* either every rank has terminated or some rank can go on
C9_NoRankBlocked ==
    (\A r \in Ranks : RankTerminated(r)) \/ ENABLED MPINext

\* C10 (as claimed): the name and step parsed from a snapshot's file name are
\* the case name and step it was written under
C10_NameRoundTrip ==
    \A r \in RestartArgs :
        (pc # "main" /\ argv.restart_file = RestartPath(r)) =>
            /\ pc \notin {"ValueError", "IndexError"}
            /\ restart_name = r.wname
            /\ restart_step = r.wstep

====
